---- MODULE Spec2Model ----
(***************************************************************************)
(* WarpSchema warp-check: the local schema-drift analyser and ROI          *)
(* estimator of src/warp-check.py.  Its levenshtein is also specified on   *)
(* its own, on arbitrary short strings.  The last part is the consumer     *)
(* loop of src/adapters/sqs_adapter.py.                                    *)
(*                                                                         *)
(* Representation.                                                         *)
(*  - A Python str used as a key is the sequence of its characters.        *)
(*  - A JSON value is a record [type, repr]: the name of its Python type   *)
(*    and its repr() text.                                                 *)
(*  - A payload (a dict) is a function from its keys to values.            *)
(*  - A batch entry that is not a dict is a function too, from the one     *)
(*    argument NotAnObject (which is no str, so no key) to the value.      *)
(*  - A Python set is iterated in an order the program does not control    *)
(*    (hash order): a set that is iterated is carried as a sequence, and   *)
(*    the order is chosen nondeterministically when the set is built.      *)
(*  - confidence, a float in [0, 1], is an integer number of thousandths   *)
(*    (0.85 is 850); the arithmetic is exact, not IEEE.                    *)
(***************************************************************************)
EXTENDS Integers, Sequences, FiniteSets, TLC

VARIABLES
  payloads,   \* main: the parsed input file, a list of payloads
  pc,         \* position of the run: "run_analysis", "report", "done",
              \* or "raised" when an exception ended the process
  idx,        \* run_analysis: how many payloads the loop has consumed
  issues,     \* run_analysis: the list analyse_payload returned last
  result,     \* run_analysis: the AnalysisResult being built
  report,     \* what the renderer printed
  lev_args,   \* levenshtein on its own: the strings <<a, b, c>> it is
              \* called on, <<>> when it is not exercised
  lev_out,    \* levenshtein on its own: what the calls returned, <<>>
              \* before they are made
  queue,      \* SQS: the messages sent to the queue, [MessageId, Body] each;
              \* the MessageId of queue[i] is i
  deleted,    \* SQS: the MessageIds delete_message was called for
  sqs_pc,     \* poll_sqs: "off", "receive_message", "for" or, when an
              \* exception ended the process, "raised"
  messages,   \* poll_sqs: response["Messages"] of the current poll
  handled,    \* poll_sqs: how many of messages the for loop has consumed
  posted,     \* the MessageIds whose body was POSTed during the current poll
  outcome     \* per MessageId, what the adapter logged last about the message

\* the state of levenshtein exercised on its own
lev_vars == <<lev_args, lev_out>>

\* the state of the SQS adapter and of its queue
sqs_vars == <<queue, deleted, sqs_pc, messages, handled, posted, outcome>>

vars ==
  <<payloads, pc, idx, issues, result, report, lev_args, lev_out,
    queue, deleted, sqs_pc, messages, handled, posted, outcome>>

(***************************************************************************)
(* Bounds of the model.                                                    *)
(***************************************************************************)
\* longest batch of the pipeline specification
MaxBatch == 4
\* most extra (non-canonical) keys in one analysed payload
MaxExtra == 2
\* most canonical keys of one analysed payload holding a value other than
\* the conforming one
MaxOdd == 2
\* longest string levenshtein is exercised on
MaxLen == 3
\* most messages sent to the SQS queue
MaxQueue == 3

(***************************************************************************)
(* Keys.                                                                   *)
(***************************************************************************)
event_id == <<"e", "v", "e", "n", "t", "_", "i", "d">>
timestamp == <<"t", "i", "m", "e", "s", "t", "a", "m", "p">>
user_id == <<"u", "s", "e", "r", "_", "i", "d">>
action == <<"a", "c", "t", "i", "o", "n">>
metadata == <<"m", "e", "t", "a", "d", "a", "t", "a">>

\* Each entry maps a required key name to its expected Python type(s); a
\* dict keeps insertion order.
CANONICAL_SCHEMA ==
  << [key |-> event_id, types |-> <<"str">>],
     [key |-> timestamp, types |-> <<"int", "float">>],
     [key |-> user_id, types |-> <<"int">>],
     [key |-> action, types |-> <<"str">>],
     [key |-> metadata, types |-> <<"dict">>] >>

\* set(CANONICAL_SCHEMA.keys())
canonical_keys == {CANONICAL_SCHEMA[i].key : i \in 1..Len(CANONICAL_SCHEMA)}

\* CANONICAL_SCHEMA[k]
expected_types(k) ==
  CANONICAL_SCHEMA[
    CHOOSE i \in 1..Len(CANONICAL_SCHEMA) : CANONICAL_SCHEMA[i].key = k].types

\* MAX_HEAL_DISTANCE with a threshold that lets distant keys match
LooseHealDistance == 3 + 3

\* Maximum Levenshtein distance to consider a misspelled key "healable"
MAX_HEAL_DISTANCE == 2

(***************************************************************************)
(* levenshtein.                                                            *)
(***************************************************************************)
\* min() without the third candidate, the substitution
Min3_no_substitute(p, q, r) == IF p <= q THEN p ELSE q

\* min() of the three candidates of one cell
Min3(p, q, r) == IF p <= q /\ p <= r THEN p ELSE IF q <= r THEN q ELSE r

\* for j, cb in enumerate(b): curr_row.append(min(...)).  j counts from 1
\* here and from 0 in the source, so curr_row[j] is the source's
\* curr_row[j], prev_row[j + 1] its prev_row[j + 1] and prev_row[j] its
\* prev_row[j].  (curr_row starts as [i + 1] and is never empty: the second
\* test only makes TLC evaluate the row before it descends.)
RECURSIVE LevInner(_, _, _, _, _)
LevInner(curr_row, prev_row, ca, b, j) ==
  IF j > Len(b) \/ curr_row = <<>> THEN curr_row
  ELSE LET cost == IF ca = b[j] THEN 0 ELSE 1
       IN LevInner(Append(curr_row, Min3(curr_row[j] + 1,
                                          prev_row[j + 1] + 1,
                                          prev_row[j] + cost)),
                   prev_row, ca, b, j + 1)

\* for i, ca in enumerate(a): curr_row = [i + 1]; ...; prev_row = curr_row
\* (i counts from 1 here, so the row starts with i.)
RECURSIVE LevOuter(_, _, _, _)
LevOuter(prev_row, a, b, i) ==
  IF i > Len(a) \/ prev_row = <<>> THEN prev_row
  ELSE LevOuter(LevInner(<<i>>, prev_row, a[i], b, 1), a, b, i + 1)

RECURSIVE levenshtein(_, _)
levenshtein(a, b) ==
  IF Len(a) < Len(b) THEN levenshtein(b, a)
  ELSE IF b = <<>> THEN Len(a)
  ELSE LET last_row == LevOuter([j \in 1..(Len(b) + 1) |-> j - 1], a, b, 1)
       IN last_row[Len(last_row)]

(***************************************************************************)
(* Values and payloads the analyser is run on.                             *)
(***************************************************************************)
VStr == [type |-> "str", repr |-> "'evt-1'"]
VInt == [type |-> "int", repr |-> "1000"]
VFloat == [type |-> "float", repr |-> "1.5"]
VBool == [type |-> "bool", repr |-> "True"]
VDict == [type |-> "dict", repr |-> "{}"]
VNone == [type |-> "NoneType", repr |-> "None"]

\* what json.loads can put under a key: one value of each type (but list,
\* which no canonical key accepts, as no key accepts NoneType)
Values == {VStr, VInt, VFloat, VBool, VDict, VNone}

\* type(val).__mro__ without object: bool is a subclass of int
Mro(type) == IF type = "bool" THEN {"bool", "int"} ELSE {type}

\* isinstance against the first of the expected types only
isinstance_first(val, types) == types[1] \in Mro(val.type)

\* isinstance(val, expected_types)
isinstance(val, types) == \E n \in 1..Len(types) : types[n] \in Mro(val.type)

\* non-canonical keys the analysed payloads may carry
actoin == <<"a", "c", "t", "o", "i", "n">>
actio == <<"a", "c", "t", "i", "o">>
acton == <<"a", "c", "t", "o", "n">>
ever_id == <<"e", "v", "e", "r", "_", "i", "d">>

\* actoin is 2 edits from action, actio and acton 1 edit; ever_id is 2 edits
\* from event_id and 2 from user_id; each is more than 2 edits from every
\* other canonical key
ExtraKeyPool == {actoin, actio, acton, ever_id}

\* levenshtein over the pairs the analyser asks for, evaluated once
LevTable ==
  [k \in canonical_keys |-> [c \in ExtraKeyPool |-> levenshtein(k, c)]]

\* levenshtein(key, c) as _best_match calls it
Distance(key, c) ==
  IF key \in canonical_keys /\ c \in ExtraKeyPool THEN LevTable[key][c]
  ELSE levenshtein(key, c)

(***************************************************************************)
(* Numbers.                                                                *)
(***************************************************************************)
Pow10(ndigits) ==
  CASE ndigits = 1 -> 10 [] ndigits = 2 -> 100 [] ndigits = 3 -> 1000
    [] ndigits = 4 -> 10000

\* round(num / den, ndigits), as the integer number of 10^-ndigits units:
\* to the nearest, a tie to the even one.  (num >= 0, den > 0.)
RoundTo(num, den, ndigits) ==
  LET scaled == num * Pow10(ndigits)
      q == scaled \div den
      r == scaled % den
  IN IF 2 * r < den THEN q
     ELSE IF 2 * r > den THEN q + 1
     ELSE IF q % 2 = 0 THEN q ELSE q + 1

(***************************************************************************)
(* DriftIssue: a single detected schema deviation.  detail, an f-string,   *)
(* is kept as its template and the values interpolated into it.           *)
(***************************************************************************)
DriftIssue(event_id_, issue_type, field, detail, healable, confidence) ==
  [event_id |-> event_id_, issue_type |-> issue_type, field |-> field,
   detail |-> detail, healable |-> healable, confidence |-> confidence]

\* the match branch with the confidence taken over len(mkey), not
\* len(mkey) + 1
MisspelledKeyIssue_len(eid, mkey, matched_key, dist) ==
  DriftIssue(eid, "misspelled_key", mkey,
             [text |-> "Likely misspelling: '{}' -> '{}' (edit distance {})",
              a |-> matched_key, b |-> mkey, n |-> dist],
             TRUE,
             RoundTo(Len(mkey) - dist, Len(mkey), 3))

\* the match branch of the missing-key loop
MisspelledKeyIssue(eid, mkey, matched_key, dist) ==
  DriftIssue(eid, "misspelled_key", mkey,
             [text |-> "Likely misspelling: '{}' -> '{}' (edit distance {})",
              a |-> matched_key, b |-> mkey, n |-> dist],
             TRUE,
             \* confidence = 1.0 - (dist / (len(mkey) + 1)), rounded to 3
             RoundTo(Len(mkey) + 1 - dist, Len(mkey) + 1, 3))

\* the no-match branch of the missing-key loop
MissingKeyIssue(eid, mkey) ==
  DriftIssue(eid, "missing_key", mkey,
             [text |-> "Required key '{}' is absent with no close match",
              a |-> mkey, b |-> <<>>, n |-> 0],
             FALSE, 0)

\* the extra-key issue with its confidence written as a percentage
ExtraKeyIssue_percent(eid, ekey) ==
  DriftIssue(eid, "extra_key", ekey,
             [text |-> "Unexpected key '{}' not in canonical schema",
              a |-> ekey, b |-> <<>>, n |-> 0],
             TRUE, 85000)

\* the extra-key loop's issue
ExtraKeyIssue(eid, ekey) ==
  DriftIssue(eid, "extra_key", ekey,
             [text |-> "Unexpected key '{}' not in canonical schema",
              a |-> ekey, b |-> <<>>, n |-> 0],
             TRUE, 850)

\* the type loop's issue
WrongTypeIssue(eid, ckey, val) ==
  DriftIssue(eid, "wrong_type", ckey,
             [text |-> "Expected {}, got {}: {}",
              a |-> expected_types(ckey), b |-> <<val.type, val.repr>>,
              n |-> 0],
             TRUE, 750)

(***************************************************************************)
(* Analysis engine.                                                        *)
(***************************************************************************)
None == <<>>

\* for c in candidates: ... (candidates: the set in its iteration order)
RECURSIVE BestMatchLoop(_, _, _, _)
BestMatchLoop(best, key, candidates, n) ==
  IF n > Len(candidates) THEN best
  ELSE LET c == candidates[n]
           d == Distance(key, c)
       IN BestMatchLoop(IF d <= MAX_HEAL_DISTANCE
                           /\ (best = None \/ d < best[2])
                        THEN <<c, d>> ELSE best,
                        key, candidates, n + 1)

\* _best_match: the closest candidate within MAX_HEAL_DISTANCE as
\* <<candidate, distance>>, or None
best_match(key, candidates) == BestMatchLoop(None, key, candidates, 1)

\* the missing-key loop without its extra.discard(matched_key)
Discard_skipped(extra, matched_key) == extra

\* extra.discard(matched_key): the set keeps the order of what is left
Discard(extra, matched_key) == SelectSeq(extra, LAMBDA e : e # matched_key)

\* for mkey in missing: ...  Returns the issues and what is left of extra.
RECURSIVE MissingLoop(_, _, _, _, _)
MissingLoop(issues_, extra, missing, eid, n) ==
  IF n > Len(missing) THEN [issues |-> issues_, extra |-> extra]
  ELSE LET mkey == missing[n]
           match == best_match(mkey, extra)
       IN IF match # None
          THEN MissingLoop(
                 Append(issues_,
                        MisspelledKeyIssue(eid, mkey, match[1], match[2])),
                 Discard(extra, match[1]), missing, eid, n + 1)
          ELSE MissingLoop(Append(issues_, MissingKeyIssue(eid, mkey)),
                           extra, missing, eid, n + 1)

\* for ekey in extra: issues.append(...)
ExtraLoop(issues_, extra, eid) ==
  issues_ \o [n \in 1..Len(extra) |-> ExtraKeyIssue(eid, extra[n])]

\* for ckey, expected_types in CANONICAL_SCHEMA.items(): ...
RECURSIVE TypeLoop(_, _, _, _)
TypeLoop(issues_, payload, eid, n) ==
  IF n > Len(CANONICAL_SCHEMA) THEN issues_
  ELSE LET ckey == CANONICAL_SCHEMA[n].key
       IN IF ckey \in DOMAIN payload
             /\ ~isinstance(payload[ckey], CANONICAL_SCHEMA[n].types)
          THEN TypeLoop(Append(issues_,
                               WrongTypeIssue(eid, ckey, payload[ckey])),
                        payload, eid, n + 1)
          ELSE TypeLoop(issues_, payload, eid, n + 1)

\* payload.get("event_id", f"<index-{index}>")
EventIdOf(payload, index) ==
  IF event_id \in DOMAIN payload THEN payload[event_id]
  ELSE [type |-> "str", repr |-> "'<index-" \o ToString(index) \o ">'"]

\* canonical_keys - present_keys
MissingKeys(payload) == canonical_keys \ DOMAIN payload

\* present_keys - canonical_keys
ExtraKeys(payload) == DOMAIN payload \ canonical_keys

\* the orders a set can be iterated in
Orders(S) ==
  {o \in [1..Cardinality(S) -> S] :
     \A i, j \in 1..Cardinality(S) : i # j => o[i] # o[j]}

\* analyse_payload: check one payload against the canonical schema.
\* missing and extra are the two sets of the source in their iteration order.
analyse_payload(payload, index, missing, extra) ==
  LET eid == EventIdOf(payload, index)
      after_missing == MissingLoop(<<>>, extra, missing, eid, 1)
      after_extra == ExtraLoop(after_missing.issues, after_missing.extra, eid)
  IN TypeLoop(after_extra, payload, eid, 1)

(***************************************************************************)
(* Inputs.                                                                 *)
(***************************************************************************)
\* the value a conforming payload holds under a canonical key
Conforming(k) ==
  CASE k = event_id -> VStr
    [] k = timestamp -> VInt
    [] k = user_id -> VInt
    [] k = action -> VStr
    [] k = metadata -> VDict

\* a payload with the canonical keys of present, those of DOMAIN odd holding
\* odd's values instead of the conforming ones, and the extra keys of extra
MakePayload(present, odd, extra) ==
  [k \in present \cup extra |->
     IF k \in extra THEN VInt
     ELSE IF k \in DOMAIN odd THEN odd[k] ELSE Conforming(k)]

\* subsets of S with at most n elements
SubsetsUpTo(S, n) == {T \in SUBSET S : Cardinality(T) <= n}

\* the values a key can hold besides the conforming one
OddValues(O) == {odd \in [O -> Values] : \A k \in O : odd[k] # Conforming(k)}

\* all five keys, each with a conforming value
CleanPayload == MakePayload(canonical_keys, <<>>, {})
\* missing action and user_id, extra actoin
ActoinPayload ==
  MakePayload({event_id, timestamp, metadata}, <<>>, {actoin})
\* missing user_id: one issue, not healable
NoUserIdPayload == MakePayload(canonical_keys \ {user_id}, <<>>, {})
\* timestamp sent as a string: one issue, healable
StrTimestampPayload ==
  MakePayload(canonical_keys, [k \in {timestamp} |-> VStr], {})
\* no event_id, so issues carry the index: one issue, not healable
NoEventIdPayload == MakePayload(canonical_keys \ {event_id}, <<>>, {})

\* what stands for the keys of a batch entry that has none: a sequence
\* that is not a sequence of characters
NotAnObject == <<"not an object">>

\* a batch entry that json.loads did not make a dict: a bare number
BareNumber == [k \in {NotAnObject} |-> VInt]

\* whether a batch entry has .get and .keys, as a dict has
IsObject(entry) == NotAnObject \notin DOMAIN entry

\* the entries the batches of the pipeline are made of
BatchPayloads ==
  {CleanPayload, ActoinPayload, NoUserIdPayload, StrTimestampPayload,
   NoEventIdPayload, BareNumber}

\* --mttr, in thousandths of a minute (default 15.0)
MttrChoices == {10000, 15000, 12346}
\* --cost-per-minute, in dollars (default 50.0)
CostChoices == {50, 95}

(***************************************************************************)
(* AnalysisResult and run_analysis.                                        *)
(***************************************************************************)
AnalysisResult(total_payloads) ==
  [total_payloads |-> total_payloads, clean_payloads |-> 0,
   drifted_payloads |-> 0, issues |-> <<>>, healable_count |-> 0,
   total_confidence |-> 0]

\* nothing printed yet
NoReport == [output |-> "none"]

\* the count without its "if i.healable"
HealableCount_all(iss, n) == n

\* sum(1 for i in result.issues if i.healable), over the first n issues
RECURSIVE HealableCount(_, _)
HealableCount(iss, n) ==
  IF n = 0 THEN 0
  ELSE HealableCount(iss, n - 1) + (IF iss[n].healable THEN 1 ELSE 0)

\* sum(i.confidence for i in result.issues if i.healable), over the first n
RECURSIVE TotalConfidence(_, _)
TotalConfidence(iss, n) ==
  IF n = 0 THEN 0
  ELSE TotalConfidence(iss, n - 1)
       + (IF iss[n].healable THEN iss[n].confidence ELSE 0)

\* the fold with the new issues put before the ones collected so far
Fold_prepend(res, iss) ==
  IF iss # <<>>
  THEN [res EXCEPT !.drifted_payloads = @ + 1, !.issues = iss \o @]
  ELSE [res EXCEPT !.clean_payloads = @ + 1]

\* one turn of the loop: analyse payloads[idx] and fold its issues in
Fold(res, iss) ==
  IF iss # <<>>
  THEN [res EXCEPT !.drifted_payloads = @ + 1, !.issues = @ \o iss]
  ELSE [res EXCEPT !.clean_payloads = @ + 1]

\* the sums after the loop
Summed(res) ==
  [res EXCEPT !.healable_count = HealableCount(res.issues, Len(res.issues)),
              !.total_confidence =
                 TotalConfidence(res.issues, Len(res.issues))]

\* the state main is in when it calls run_analysis on a loaded batch
Start(batch) ==
  /\ payloads = batch
  /\ pc = "run_analysis"
  /\ idx = 0
  /\ issues = <<>>
  /\ result = AnalysisResult(Len(batch))
  /\ report = NoReport

\* for idx, payload in enumerate(payloads): one iteration
AnalyseNext ==
  /\ pc = "run_analysis"
  /\ idx < Len(payloads)
  /\ IsObject(payloads[idx + 1])
  /\ LET payload == payloads[idx + 1]
     IN \E missing \in Orders(MissingKeys(payload)),
           extra \in Orders(ExtraKeys(payload)) :
          LET iss == analyse_payload(payload, idx, missing, extra)
          IN /\ issues' = iss
             /\ result' = Fold(result, iss)
  /\ idx' = idx + 1
  /\ UNCHANGED <<payloads, pc, report>>
  /\ UNCHANGED <<lev_vars, sqs_vars>>

\* one iteration on an entry that is not a dict: payload.get raises
\* AttributeError in analyse_payload; run_analysis and main have no handler,
\* so the process ends with a traceback, no result and no report
AnalyseRaises ==
  /\ pc = "run_analysis"
  /\ idx < Len(payloads)
  /\ ~IsObject(payloads[idx + 1])
  /\ pc' = "raised"
  /\ UNCHANGED <<payloads, idx, issues, result, report>>
  /\ UNCHANGED <<lev_vars, sqs_vars>>

\* the loop is over: the two sums, and the return to main
Aggregate ==
  /\ pc = "run_analysis"
  /\ idx = Len(payloads)
  /\ result' = Summed(result)
  /\ pc' = "report"
  /\ UNCHANGED <<payloads, idx, issues, report>>
  /\ UNCHANGED <<lev_vars, sqs_vars>>

(***************************************************************************)
(* Reporting.  mttr_minutes is in thousandths of a minute, cost_per_minute *)
(* in dollars, so downtime_minutes is in thousandths of a minute and       *)
(* cost_saved in thousandths of a dollar.  A printed number is             *)
(* [value, digits]: value * 10^-digits.  Where the exact quotient lies     *)
(* halfway between two printed values, the float the source rounds may     *)
(* lie on either side of it; no claim rests on such a digit.               *)
(***************************************************************************)
\* a number printed with a rounding: round(x, digits), f"{x:.<digits>f}"
Shown(num, den, digits) ==
  [value |-> RoundTo(num, den, digits), digits |-> digits]

\* a number printed as it is
Raw(value, digits) == [value |-> value, digits |-> digits]

\* incidents_prevented without the test of healable_count
IncidentsPrevented_always(res) == res.drifted_payloads

\* incidents_prevented = result.drifted_payloads if result.healable_count else 0
IncidentsPrevented(res) ==
  IF res.healable_count # 0 THEN res.drifted_payloads ELSE 0

\* the locals both renderers compute before they print
ReportLocals(res, cost_per_minute, mttr_minutes) ==
  LET n_issues == Len(res.issues)
      incidents_prevented == IncidentsPrevented(res)
      downtime_minutes == incidents_prevented * mttr_minutes
  IN [healable_pct |->
        IF n_issues # 0
        THEN [num |-> res.healable_count * 100, den |-> n_issues]
        ELSE [num |-> 100, den |-> 1],
      avg_confidence |->
        IF res.healable_count # 0
        THEN [num |-> res.total_confidence,
              den |-> 1000 * res.healable_count]
        ELSE [num |-> 0, den |-> 1],
      incidents_prevented |-> incidents_prevented,
      downtime_minutes |-> downtime_minutes,
      cost_saved |-> downtime_minutes * cost_per_minute,
      cost_per_minute |-> cost_per_minute,
      mttr_minutes |-> mttr_minutes]

\* print_text_report: what it prints
TextReport(res, cost_per_minute, mttr_minutes) ==
  LET l == ReportLocals(res, cost_per_minute, mttr_minutes)
  IN [output |-> "text",
      total_payloads |-> res.total_payloads,
      clean_payloads |-> res.clean_payloads,
      drifted_payloads |-> res.drifted_payloads,
      total_issues |-> Len(res.issues),
      healable_issues |-> res.healable_count,
      healed_pct |-> Shown(l.healable_pct.num, l.healable_pct.den, 1),
      avg_confidence |-> Shown(l.avg_confidence.num, l.avg_confidence.den, 3),
      mttr_minutes |-> Shown(mttr_minutes, 1000, 1),
      cost_per_minute |-> Shown(cost_per_minute, 1, 2),
      incidents_prevented |-> l.incidents_prevented,
      downtime_prevented_minutes |-> Shown(l.downtime_minutes, 1000, 1),
      estimated_cost_saved |-> Shown(l.cost_saved, 1000, 2),
      issues |-> [n \in 1..Len(res.issues) |->
                    [tag |-> IF res.issues[n].healable
                             THEN "healable" ELSE "manual",
                     event_id |-> res.issues[n].event_id,
                     type |-> res.issues[n].issue_type,
                     field |-> res.issues[n].field,
                     detail |-> res.issues[n].detail]],
      locals |-> l]

\* print_json_report: the dict it dumps
JsonReport(res, cost_per_minute, mttr_minutes) ==
  LET l == ReportLocals(res, cost_per_minute, mttr_minutes)
  IN [output |-> "json",
      total_payloads |-> res.total_payloads,
      clean_payloads |-> res.clean_payloads,
      drifted_payloads |-> res.drifted_payloads,
      total_issues |-> Len(res.issues),
      healable_issues |-> res.healable_count,
      healed_pct |-> Shown(l.healable_pct.num, l.healable_pct.den, 2),
      avg_confidence |-> Shown(l.avg_confidence.num, l.avg_confidence.den, 4),
      mttr_minutes |-> Raw(mttr_minutes, 3),
      cost_per_minute |-> Raw(cost_per_minute, 0),
      incidents_prevented |-> l.incidents_prevented,
      downtime_prevented_minutes |-> Shown(l.downtime_minutes, 1000, 2),
      estimated_cost_saved |-> Shown(l.cost_saved, 1000, 2),
      issues |-> [n \in 1..Len(res.issues) |->
                    [event_id |-> res.issues[n].event_id,
                     type |-> res.issues[n].issue_type,
                     field |-> res.issues[n].field,
                     detail |-> res.issues[n].detail,
                     healable |-> res.issues[n].healable,
                     confidence |-> res.issues[n].confidence]],
      locals |-> l]

\* main, args.output == "text"
PrintTextReport ==
  /\ pc = "report"
  /\ \E cost_per_minute \in CostChoices, mttr_minutes \in MttrChoices :
       report' = TextReport(result, cost_per_minute, mttr_minutes)
  /\ pc' = "done"
  /\ UNCHANGED <<payloads, idx, issues, result>>
  /\ UNCHANGED <<lev_vars, sqs_vars>>

\* main, args.output == "json"
PrintJsonReport ==
  /\ pc = "report"
  /\ \E cost_per_minute \in CostChoices, mttr_minutes \in MttrChoices :
       report' = JsonReport(result, cost_per_minute, mttr_minutes)
  /\ pc' = "done"
  /\ UNCHANGED <<payloads, idx, issues, result>>
  /\ UNCHANGED <<lev_vars, sqs_vars>>

(***************************************************************************)
(* Specifications.                                                         *)
(***************************************************************************)
\* levenshtein is not exercised on its own
NoLevCall == lev_args = <<>> /\ lev_out = <<>>

\* the SQS adapter is not running
NoAdapter ==
  /\ queue = <<>>
  /\ deleted = {}
  /\ sqs_pc = "off"
  /\ messages = <<>>
  /\ handled = 0
  /\ posted = <<>>
  /\ outcome = <<>>

\* the pipeline on a batch of up to MaxBatch payloads
Init ==
  /\ \E n \in 0..MaxBatch : \E batch \in [1..n -> BatchPayloads] : Start(batch)
  /\ NoLevCall
  /\ NoAdapter

Next ==
  \/ AnalyseNext
  \/ AnalyseRaises
  \/ Aggregate
  \/ PrintTextReport
  \/ PrintJsonReport

Spec == Init /\ [][Next]_vars

\* run_analysis on a batch of one payload
\* (any canonical keys missing, up to MaxOdd of the present ones holding a
\* value other than the conforming one, up to MaxExtra extra keys)
InitAnalyse ==
  /\ \E present \in SUBSET canonical_keys,
        extra \in SubsetsUpTo(ExtraKeyPool, MaxExtra) :
       \E O \in SubsetsUpTo(present, MaxOdd) :
         \E odd \in OddValues(O) : Start(<<MakePayload(present, odd, extra)>>)
  /\ NoLevCall
  /\ NoAdapter

NextAnalyse == AnalyseNext

SpecAnalyse == InitAnalyse /\ [][NextAnalyse]_vars

(***************************************************************************)
(* levenshtein on its own: three strings of up to MaxLen characters, and   *)
(* the calls whose results the metric laws relate.                         *)
(***************************************************************************)
\* the characters of the strings
Alphabet == {"a", "b"}

\* the strings of up to n characters
Strings(n) == UNION {[1..m -> Alphabet] : m \in 0..n}

\* levenshtein(a, b), levenshtein(b, a), levenshtein(a, a),
\* levenshtein(a, c) and levenshtein(b, c)
CallLevenshtein ==
  /\ lev_args # <<>>
  /\ lev_out = <<>>
  /\ LET a == lev_args[1]
         b == lev_args[2]
         c == lev_args[3]
     IN lev_out' = <<levenshtein(a, b), levenshtein(b, a), levenshtein(a, a),
                     levenshtein(a, c), levenshtein(b, c)>>
  /\ UNCHANGED <<payloads, pc, idx, issues, result, report, lev_args>>
  /\ UNCHANGED sqs_vars

InitLev ==
  /\ Start(<<>>)
  /\ \E a, b, c \in Strings(MaxLen) : lev_args = <<a, b, c>>
  /\ lev_out = <<>>
  /\ NoAdapter

NextLev == CallLevenshtein

SpecLev == InitLev /\ [][NextLev]_vars

(***************************************************************************)
(* The SQS adapter: poll_sqs and forward_payload.  SQS keeps a message     *)
(* until delete_message is called for it: a message a poll received and    *)
(* did not delete can be received again by a later poll.                   *)
(***************************************************************************)
\* MaxNumberOfMessages=10 of receive_message
MaxNumberOfMessages == 10

\* message bodies: the JSON text of an object, the JSON text of a number,
\* and a text that is not JSON
ObjectBody == "{}"
NumberBody == "1000"
TextBody == "evt-1"
Bodies == {ObjectBody, NumberBody, TextBody}

\* json.loads raised json.JSONDecodeError
JSONDecodeError == [type |-> "JSONDecodeError", repr |-> "Expecting value"]

\* json.loads(msg["Body"]): the decoded value, or JSONDecodeError
json_loads(body) ==
  CASE body = ObjectBody -> VDict
    [] body = NumberBody -> VInt
    [] OTHER -> JSONDecodeError

\* what requests.post does: the endpoint answers with a status code, or the
\* call raises requests.RequestException (refused, timed out, ...)
Response(status_code) == [raised |-> FALSE, status_code |-> status_code]
RequestException == [raised |-> TRUE, status_code |-> 0]
Responses == {Response(200), Response(201), Response(500), RequestException}

\* forward_payload with every answer of the endpoint taken for a success
forward_payload_any_status(payload, resp) ==
  IF resp.raised THEN "False"
  ELSE IF payload.type = "dict" THEN "True" ELSE "AttributeError"

\* forward_payload: "True", "False", or the exception that leaves it.  On
\* HTTP 200 it logs payload.get("event_id", "?"), which only a dict has:
\* AttributeError is no RequestException, so it is not caught.
forward_payload(payload, resp) ==
  IF resp.raised THEN "False"
  ELSE IF resp.status_code = 200
       THEN IF payload.type = "dict" THEN "True" ELSE "AttributeError"
       ELSE "False"

\* what the adapter says about a message
NoLine == [line |-> "", status_code |-> 0]
Skipping == [line |-> "Skipping non-JSON message", status_code |-> 0]
Ingested(resp) == [line |-> "Ingested event", status_code |-> resp.status_code]
GatewayReturned(resp) ==
  [line |-> "Gateway returned HTTP", status_code |-> resp.status_code]
FailedToForward == [line |-> "Failed to forward payload", status_code |-> 0]
Traceback(resp) ==
  [line |-> "AttributeError", status_code |-> resp.status_code]

\* the messages of queue at the positions of ids, in the order of the queue
RECURSIVE Received(_, _)
Received(ids, n) ==
  IF n = 0 THEN <<>>
  ELSE IF n \in ids THEN Append(Received(ids, n - 1), queue[n])
       ELSE Received(ids, n - 1)

\* response = sqs.receive_message(...); messages = response.get("Messages", [])
\* SQS answers with up to MaxNumberOfMessages of the messages it holds
ReceiveMessage ==
  /\ sqs_pc = "receive_message"
  /\ \E ids \in SUBSET ((1..Len(queue)) \ deleted) :
       /\ Cardinality(ids) <= MaxNumberOfMessages
       /\ messages' = Received(ids, Len(queue))
  /\ handled' = 0
  /\ posted' = <<>>
  /\ sqs_pc' = "for"
  /\ UNCHANGED <<queue, deleted, outcome>>
  /\ UNCHANGED <<payloads, pc, idx, issues, result, report, lev_vars>>

\* for msg in messages: json.loads raises, the message is skipped
SkipMessage ==
  /\ sqs_pc = "for"
  /\ handled < Len(messages)
  /\ LET msg == messages[handled + 1]
     IN /\ json_loads(msg.Body) = JSONDecodeError
        /\ outcome' = [outcome EXCEPT ![msg.MessageId] = Skipping]
  /\ handled' = handled + 1
  /\ UNCHANGED <<queue, deleted, sqs_pc, messages, posted>>
  /\ UNCHANGED <<payloads, pc, idx, issues, result, report, lev_vars>>

\* for msg in messages: the body is decoded and forwarded, and the message
\* is deleted if forward_payload returns True
ForwardMessage ==
  /\ sqs_pc = "for"
  /\ handled < Len(messages)
  /\ LET msg == messages[handled + 1]
         payload == json_loads(msg.Body)
     IN /\ payload # JSONDecodeError
        /\ posted' = Append(posted, msg.MessageId)
        /\ \E resp \in Responses :
             LET ok == forward_payload(payload, resp)
             IN /\ deleted' = IF ok = "True"
                              THEN deleted \cup {msg.MessageId} ELSE deleted
                /\ outcome' =
                     [outcome EXCEPT ![msg.MessageId] =
                        IF ok = "True" THEN Ingested(resp)
                        ELSE IF ok = "AttributeError" THEN Traceback(resp)
                        ELSE IF resp.raised THEN FailedToForward
                        ELSE GatewayReturned(resp)]
                /\ sqs_pc' = IF ok = "AttributeError" THEN "raised" ELSE "for"
                /\ handled' = IF ok = "AttributeError"
                              THEN handled ELSE handled + 1
  /\ UNCHANGED <<queue, messages>>
  /\ UNCHANGED <<payloads, pc, idx, issues, result, report, lev_vars>>

\* the for loop is over (if not messages: ...), back to while True
EndOfBatch ==
  /\ sqs_pc = "for"
  /\ handled = Len(messages)
  /\ sqs_pc' = "receive_message"
  /\ UNCHANGED <<queue, deleted, messages, handled, posted, outcome>>
  /\ UNCHANGED <<payloads, pc, idx, issues, result, report, lev_vars>>

\* poll_sqs starts on a queue holding up to MaxQueue messages
InitSqs ==
  /\ Start(<<>>)
  /\ NoLevCall
  /\ \E n \in 0..MaxQueue : \E body \in [1..n -> Bodies] :
       /\ queue = [i \in 1..n |-> [MessageId |-> i, Body |-> body[i]]]
       /\ outcome = [i \in 1..n |-> NoLine]
  /\ deleted = {}
  /\ sqs_pc = "receive_message"
  /\ messages = <<>>
  /\ handled = 0
  /\ posted = <<>>

NextSqs == ReceiveMessage \/ SkipMessage \/ ForwardMessage \/ EndOfBatch

SpecSqs == InitSqs /\ [][NextSqs]_vars

(***************************************************************************)
(* Properties.  The payload analysed last is payloads[idx], and issues is  *)
(* what analyse_payload returned for it.                                   *)
(***************************************************************************)
Analysed == idx >= 1

LastPayload == payloads[idx]

\* the positions in issues of the issues of one type about one field
IssuesOf(issue_type, field) ==
  {n \in 1..Len(issues) :
     issues[n].issue_type = issue_type /\ issues[n].field = field}

\* the positions in issues of the issues about one field
IssuesFor(field) == {n \in 1..Len(issues) : issues[n].field = field}

\* the extra keys of the last payload within 2 edits of k
Near(k) == {e \in ExtraKeys(LastPayload) : Distance(k, e) <= 2}

\* the least of a non-empty set of numbers
Least(S) == CHOOSE x \in S : \A y \in S : x <= y

\* c thousandths is 1 - d/(len(k)+1) to the nearest thousandth
IsConfidenceOf(c, k, d) ==
  LET den == Len(k) + 1
      diff == 1000 * (den - d) - c * den
  IN 2 * diff <= den /\ 2 * (0 - diff) <= den

\* the type tags the schema accepts for a canonical key
AcceptedTags(k) == {expected_types(k)[n] : n \in 1..Len(expected_types(k))}

\* C1 as claimed: for every missing canonical key k and every extra key e
\* with d = levenshtein(k, e) <= 2, there is exactly one misspelled_key issue
\* for k, healable, with confidence round(1 - d/(len(k)+1), 3), and e is not
\* reported as an extra_key issue.
C1_EveryCloseExtraIsMatched ==
  Analysed =>
    \A k \in MissingKeys(LastPayload) : \A e \in Near(k) :
      /\ Cardinality(IssuesOf("misspelled_key", k)) = 1
      /\ \A n \in IssuesOf("misspelled_key", k) :
           /\ issues[n].healable
           /\ IsConfidenceOf(issues[n].confidence, k, Distance(k, e))
      /\ IssuesOf("extra_key", e) = {}

\* C1 as amended: for every missing canonical key k that has an extra key
\* within 2 edits, none of which is within 2 edits of another missing
\* canonical key, there is exactly one misspelled_key issue for k and no
\* missing_key issue; it is healable, its confidence is
\* round(1 - d/(len(k)+1), 3) for d the least distance from k to an extra
\* key, the key it matched is an extra key at that distance and is not
\* reported as an extra_key issue, and every other extra key within 2 edits
\* of k is reported as one extra_key issue.
C1_UncontestedMisspelling ==
  Analysed =>
    \A k \in MissingKeys(LastPayload) :
      LET contested ==
            \E e \in Near(k) : \E k2 \in MissingKeys(LastPayload) \ {k} :
              Distance(k2, e) <= 2
      IN (Near(k) # {} /\ ~contested) =>
           LET d == Least({Distance(k, e) : e \in Near(k)})
           IN /\ Cardinality(IssuesOf("misspelled_key", k)) = 1
              /\ IssuesOf("missing_key", k) = {}
              /\ \A n \in IssuesOf("misspelled_key", k) :
                   /\ issues[n].healable
                   /\ IsConfidenceOf(issues[n].confidence, k, d)
                   /\ issues[n].detail.a \in Near(k)
                   /\ Distance(k, issues[n].detail.a) = d
                   /\ issues[n].detail.n = d
                   /\ IssuesOf("extra_key", issues[n].detail.a) = {}
                   /\ \A e \in Near(k) \ {issues[n].detail.a} :
                        Cardinality(IssuesOf("extra_key", e)) = 1

\* C1's case: action and user_id are missing, actoin and ever_id are extra
\* keys (event_id is present, so ever_id is close to user_id alone), and both
\* are reported as misspellings, action's with confidence 0.714.
C1_Witness ==
  /\ Analysed
  /\ MissingKeys(LastPayload) = {action, user_id}
  /\ ExtraKeys(LastPayload) = {actoin, ever_id}
  /\ \E n \in IssuesOf("misspelled_key", action) :
       issues[n].confidence = 714 /\ issues[n].detail.a = actoin
  /\ \E n \in IssuesOf("misspelled_key", user_id) :
       issues[n].confidence = 750 /\ issues[n].detail.a = ever_id
  /\ IssuesOf("extra_key", actoin) = {}

\* C2 as claimed: _best_match returns the same match for a missing key
\* whatever order the set of extra keys is iterated in.
C2_BestMatchOrderIndependent ==
  Analysed =>
    \A k \in MissingKeys(LastPayload) :
      \A o1, o2 \in Orders(ExtraKeys(LastPayload)) :
        best_match(k, o1) = best_match(k, o2)

\* C3 as claimed: a boolean under user_id or timestamp yields a wrong_type
\* issue for that field.
C3_BoolRejectedForNumericField ==
  Analysed =>
    \A k \in {user_id, timestamp} :
      (k \in DOMAIN LastPayload /\ LastPayload[k].type = "bool")
        => IssuesOf("wrong_type", k) # {}

\* a payload with exactly the five canonical keys, each holding a value of
\* an accepted type
ConformsToSchema(payload) ==
  /\ DOMAIN payload = {event_id, timestamp, user_id, action, metadata}
  /\ \A k \in DOMAIN payload : payload[k].type \in AcceptedTags(k)

\* C4: for a payload that has exactly the five canonical keys, each with a
\* value of an accepted type, analyse_payload returns no issue, and
\* run_analysis counts the payload as clean and not as drifted (the batch is
\* that one payload).
C4_ConformingPayloadIsClean ==
  (Analysed /\ Len(payloads) = 1 /\ ConformsToSchema(LastPayload)) =>
    /\ issues = <<>>
    /\ result.issues = <<>>
    /\ result.clean_payloads = 1
    /\ result.drifted_payloads = 0

\* C4's case: a conforming payload whose timestamp is a float was analysed.
C4_Witness ==
  /\ Analysed
  /\ ConformsToSchema(LastPayload)
  /\ LastPayload[timestamp].type = "float"
  /\ issues = <<>>
  /\ result.clean_payloads = 1

\* C5: for every missing canonical key with no extra key within 2 edits in
\* the payload, there is exactly one issue for that field: a missing_key
\* issue, not healable, with confidence 0.0 (so no misspelled_key issue).
C5_UnmatchedMissingKey ==
  Analysed =>
    \A k \in MissingKeys(LastPayload) :
      (\A e \in ExtraKeys(LastPayload) : Distance(k, e) > 2) =>
        /\ Cardinality(IssuesFor(k)) = 1
        /\ \A n \in IssuesFor(k) :
             /\ issues[n].issue_type = "missing_key"
             /\ ~issues[n].healable
             /\ issues[n].confidence = 0

\* C5's case: timestamp is missing while extra keys are present, none close
\* to it, and it is reported missing.
C5_Witness ==
  /\ Analysed
  /\ timestamp \in MissingKeys(LastPayload)
  /\ ExtraKeys(LastPayload) = {actoin, ever_id}
  /\ Cardinality(IssuesOf("missing_key", timestamp)) = 1

\* C6 as claimed: a present canonical key whose value's type tag is outside
\* the accepted set has exactly one wrong_type issue, healable, with
\* confidence 0.75; any other canonical key has no wrong_type issue.
C6_WrongTypeForUnacceptedTag ==
  Analysed =>
    \A k \in canonical_keys :
      IF k \in DOMAIN LastPayload /\ LastPayload[k].type \notin AcceptedTags(k)
      THEN /\ Cardinality(IssuesOf("wrong_type", k)) = 1
           /\ \A n \in IssuesOf("wrong_type", k) :
                issues[n].healable /\ issues[n].confidence = 750
      ELSE IssuesOf("wrong_type", k) = {}

\* the extra keys a misspelled_key issue matched
Consumed == {issues[n].detail.a :
               n \in {m \in 1..Len(issues) :
                        issues[m].issue_type = "misspelled_key"}}

\* C7: every key of the payload that is not canonical and was not consumed
\* as the match of a misspelled_key issue has exactly one extra_key issue,
\* healable, with confidence 0.85; a consumed key has none, and no extra_key
\* issue is about anything else.
C7_ExtraKeyUnlessConsumed ==
  Analysed =>
    /\ \A e \in ExtraKeys(LastPayload) :
         IF e \in Consumed
         THEN IssuesOf("extra_key", e) = {}
         ELSE /\ Cardinality(IssuesOf("extra_key", e)) = 1
              /\ \A n \in IssuesOf("extra_key", e) :
                   issues[n].healable /\ issues[n].confidence = 850
    /\ \A n \in 1..Len(issues) :
         issues[n].issue_type = "extra_key"
           => issues[n].field \in ExtraKeys(LastPayload)

\* C7's case: action is missing, actoin is consumed as its misspelling and
\* has no extra_key issue, ever_id is not consumed and has one.
C7_Witness ==
  /\ Analysed
  /\ MissingKeys(LastPayload) = {action}
  /\ ExtraKeys(LastPayload) = {actoin, ever_id}
  /\ Consumed = {actoin}
  /\ IssuesOf("extra_key", actoin) = {}
  /\ Cardinality(IssuesOf("extra_key", ever_id)) = 1

\* C8: every issue has a confidence within [0.0, 1.0]; an issue that is not
\* healable has confidence 0.0; and an issue is not healable exactly when it
\* is a missing_key issue (misspelled_key, wrong_type and extra_key issues
\* are healable).
C8_ConfidenceAndHealable ==
  \A n \in 1..Len(issues) :
    /\ issues[n].confidence >= 0 /\ issues[n].confidence <= 1000
    /\ ~issues[n].healable => issues[n].confidence = 0
    /\ issues[n].issue_type \in
         {"missing_key", "misspelled_key", "wrong_type", "extra_key"}
    /\ issues[n].healable <=> issues[n].issue_type # "missing_key"

\* C8's case: one payload yields an issue of each of the four types.
C8_Witness ==
  /\ Analysed
  /\ \A t \in {"missing_key", "misspelled_key", "wrong_type", "extra_key"} :
       \E n \in 1..Len(issues) : issues[n].issue_type = t

\* the positions in result.issues of the healable issues
HealablePositions ==
  {n \in 1..Len(result.issues) : result.issues[n].healable}

\* the sum of the confidence of the issues of result.issues at positions S
RECURSIVE ConfidenceOver(_)
ConfidenceOver(S) ==
  IF S = {} THEN 0
  ELSE LET n == CHOOSE m \in S : TRUE
       IN result.issues[n].confidence + ConfidenceOver(S \ {n})

\* run_analysis has returned
Returned == pc \in {"report", "done"}

\* C9: after run_analysis, healable_count is the number of issues of
\* result.issues that are healable, and total_confidence is the sum of the
\* confidence of exactly those issues.
C9_SumsMatchIssues ==
  Returned =>
    /\ result.healable_count = Cardinality(HealablePositions)
    /\ result.total_confidence = ConfidenceOver(HealablePositions)

\* C9's case: run_analysis returned a result with three issues, two of
\* them healable and one not.
C9_Witness ==
  /\ Returned
  /\ Len(result.issues) = 3
  /\ result.healable_count = 2
  /\ result.total_confidence = 714 + 750

\* C10: in both renderers incidents_prevented is drifted_payloads when
\* healable_count > 0 and 0 otherwise, so it is 0 for a batch whose issues
\* are all unhealable although payloads drifted; downtime is
\* incidents_prevented x mttr_minutes and the cost saved is downtime x
\* cost_per_minute; 4 drifted payloads with one healable issue each, mttr
\* 10 and cost 50 give 4, 40 and 2000.
C10_IncidentsPrevented ==
  pc = "done" =>
    LET l == report.locals
    IN /\ report.output \in {"text", "json"}
       /\ report.incidents_prevented =
            (IF result.healable_count > 0
             THEN result.drifted_payloads ELSE 0)
       /\ l.incidents_prevented = report.incidents_prevented
       /\ l.downtime_minutes = report.incidents_prevented * l.mttr_minutes
       /\ l.cost_saved = l.downtime_minutes * l.cost_per_minute
       /\ (HealablePositions = {} /\ result.drifted_payloads > 0)
            => report.incidents_prevented = 0
       /\ ( /\ result.drifted_payloads = 4
            /\ Len(result.issues) = 4
            /\ HealablePositions = 1..4
            /\ l.mttr_minutes = 10000
            /\ l.cost_per_minute = 50 )
            => /\ report.incidents_prevented = 4
               /\ l.downtime_minutes = 40 * 1000
               /\ l.cost_saved = 2000 * 1000
               /\ report.downtime_prevented_minutes.value * 1000 =
                    40 * 1000 * Pow10(report.downtime_prevented_minutes.digits)
               /\ report.estimated_cost_saved = [value |-> 200000, digits |-> 2]

\* C10's case: the JSON report of a batch of 4 drifted payloads with one
\* healable issue each, mttr 10 and cost 50.
C10_Witness ==
  /\ pc = "done"
  /\ report.output = "json"
  /\ result.drifted_payloads = 4
  /\ Len(result.issues) = 4
  /\ HealablePositions = 1..4
  /\ report.locals.mttr_minutes = 10000
  /\ report.locals.cost_per_minute = 50
  /\ report.incidents_prevented = 4
  /\ report.estimated_cost_saved = [value |-> 200000, digits |-> 2]

\* a batch entry that is not an object
BadEntries == {n \in 1..Len(payloads) : ~IsObject(payloads[n])}

\* C11 as claimed: a batch holding an entry that is not an object does not
\* abort the run: the run is never ended by an exception, and when
\* run_analysis returns it has counted every other entry of the batch as
\* clean or drifted.
C11_BadEntryDoesNotAbort ==
  BadEntries # {} =>
    /\ pc # "raised"
    /\ Returned =>
         result.clean_payloads + result.drifted_payloads
           >= Len(payloads) - Cardinality(BadEntries)

\* the issue lists analyse_payload can return for one payload taken alone
\* with its index: one for each iteration order of its two sets
IssueListsOf(payload, index) ==
  {analyse_payload(payload, index, missing, extra) :
     missing \in Orders(MissingKeys(payload)),
     extra \in Orders(ExtraKeys(payload))}

\* whether iss is the concatenation, in input order, of one issue list of
\* each of payloads[n], ..., payloads[m], each with its own index
RECURSIVE IsConcatenation(_, _, _)
IsConcatenation(iss, n, m) ==
  IF n > m THEN iss = <<>>
  ELSE \E own \in IssueListsOf(payloads[n], n - 1) :
         /\ Len(own) <= Len(iss)
         /\ SubSeq(iss, 1, Len(own)) = own
         /\ IsConcatenation(SubSeq(iss, Len(own) + 1, Len(iss)), n + 1, m)

\* C12: result.issues is the concatenation, in input order of the payloads,
\* of the issue list analyse_payload produces for each payload taken alone
\* with its own index (for the payloads consumed so far while the loop runs,
\* for the whole batch once run_analysis has returned); the list appended
\* last is the one analyse_payload returned last.
C12_IssuesInInputOrder ==
  /\ IsConcatenation(result.issues, 1, idx)
  /\ Returned => idx = Len(payloads)
  /\ (idx >= 1 /\ Len(issues) <= Len(result.issues)) =>
       SubSeq(result.issues, Len(result.issues) - Len(issues) + 1,
              Len(result.issues)) = issues

\* C12's case: run_analysis returned on a batch of three drifted payloads,
\* the first and the third alike but for their index, the second with two
\* issues: four issues, the first about <index-0>, the last about <index-2>.
C12_Witness ==
  /\ Returned
  /\ payloads = <<NoEventIdPayload, ActoinPayload, NoEventIdPayload>>
  /\ Len(result.issues) = 4
  /\ result.issues[1].event_id = EventIdOf(NoEventIdPayload, 0)
  /\ result.issues[2].field = user_id
  /\ result.issues[3].field = action
  /\ result.issues[4].event_id = EventIdOf(NoEventIdPayload, 2)

\* the strings one insertion of a character away from w
Insertions(w) ==
  {SubSeq(w, 1, i) \o <<ch>> \o SubSeq(w, i + 1, Len(w)) :
     i \in 0..Len(w), ch \in Alphabet}

\* the strings one deletion of a character away from w
Deletions(w) ==
  {SubSeq(w, 1, i - 1) \o SubSeq(w, i + 1, Len(w)) : i \in 1..Len(w)}

\* the strings one substitution of a character away from w
Substitutions(w) ==
  {[w EXCEPT ![i] = ch] : i \in 1..Len(w), ch \in Alphabet} \ {w}

\* the strings of up to MaxLen + 1 characters at most k single-character
\* edits away from a string of S
RECURSIVE WithinEdits(_, _)
WithinEdits(S, k) ==
  IF k = 0 THEN S
  ELSE LET step == UNION {Insertions(w) \cup Deletions(w)
                            \cup Substitutions(w) : w \in S}
       IN WithinEdits(S \cup {w \in step : Len(w) <= MaxLen + 1}, k - 1)

\* the least number of single-character insertions, deletions and
\* substitutions that transform a into b (2 * MaxLen always do: delete
\* every character of a, insert every character of b)
MinEdits(a, b) ==
  CHOOSE k \in 0..(2 * MaxLen) :
    /\ b \in WithinEdits({a}, k)
    /\ k > 0 => b \notin WithinEdits({a}, k - 1)

\* <<a, b, k>> for the strings a, b of up to MaxLen characters and k the
\* least number of edits that transform a into b
EditDistances ==
  {<<a, b, MinEdits(a, b)>> : a \in Strings(MaxLen), b \in Strings(MaxLen)}

\* C13: for all strings a, b, c, levenshtein(a, b) is the least number of
\* single-character insertions, deletions and substitutions that transform
\* a into b (empty strings and len(a) < len(b) included); levenshtein(a, b)
\* = levenshtein(b, a), levenshtein(a, a) = 0, and levenshtein(a, c) <=
\* levenshtein(a, b) + levenshtein(b, c).
C13_LevenshteinIsEditDistance ==
  lev_out # <<>> =>
    /\ <<lev_args[1], lev_args[2], lev_out[1]>> \in EditDistances
    /\ <<lev_args[2], lev_args[1], lev_out[2]>> \in EditDistances
    /\ <<lev_args[1], lev_args[1], lev_out[3]>> \in EditDistances
    /\ <<lev_args[1], lev_args[3], lev_out[4]>> \in EditDistances
    /\ <<lev_args[2], lev_args[3], lev_out[5]>> \in EditDistances
    /\ lev_out[1] = lev_out[2]
    /\ lev_out[3] = 0
    /\ lev_out[4] <= lev_out[1] + lev_out[5]

\* C13's case: a is shorter than b, so the arguments are swapped; b is two
\* insertions away from a, and c is the empty string.
C13_Witness ==
  /\ lev_args = << <<"a">>, <<"b", "a", "b">>, <<>> >>
  /\ lev_out = <<2, 2, 0, 1, 3>>

\* the MessageIds of the messages of the current batch handled so far
HandledIds == {messages[n].MessageId : n \in 1..handled}

\* how many times a MessageId was POSTed during the current poll
Posts(id) == Cardinality({n \in 1..Len(posted) : posted[n] = id})

\* the message's body is not valid JSON
NotJson(id) == json_loads(queue[id].Body) = JSONDecodeError

\* the adapter's last handling of the message ended in a failed forward (a
\* status other than 200, or a transport error) or skipped it as not JSON
FailedOrSkipped(id) ==
  outcome[id].line \in {"Gateway returned HTTP", "Failed to forward payload",
                        "Skipping non-JSON message"}

\* C14: a message is deleted only after forward_payload reported success for
\* its decoded body, the endpoint having answered HTTP 200; a message whose
\* forwarding failed (any other status, a transport error) or whose body is
\* not valid JSON is not deleted, is POSTed at most once in a poll (never, if
\* it is not JSON), and does not stop the loop: no exception ends the
\* process on such a message, and while messages of the batch remain the
\* next one is handled.
C14_DeleteOnlyAfterSuccess ==
  sqs_pc # "off" =>
    /\ \A id \in deleted :
         /\ ~NotJson(id)
         /\ outcome[id] = Ingested(Response(200))
    /\ \A id \in 1..Len(queue) :
         /\ FailedOrSkipped(id) => id \notin deleted
         /\ NotJson(id) => id \notin deleted /\ Posts(id) = 0
         /\ outcome[id].line = "Gateway returned HTTP"
              => outcome[id].status_code # 200
         /\ Posts(id) <= 1
         /\ id \in HandledIds =>
              /\ outcome[id] # NoLine
              /\ Posts(id) = (IF NotJson(id) THEN 0 ELSE 1)
              /\ id \in deleted <=> ~FailedOrSkipped(id)
    /\ sqs_pc = "raised" =>
         /\ handled < Len(messages)
         /\ ~FailedOrSkipped(messages[handled + 1].MessageId)
         /\ ~NotJson(messages[handled + 1].MessageId)
    /\ (sqs_pc = "for" /\ handled < Len(messages)) =>
         ENABLED (SkipMessage \/ ForwardMessage)

\* C14's case: a poll received three messages; the first is not JSON and
\* was skipped, the forwarding of the second failed with a transport error
\* and the third was ingested: only the third is deleted, and the loop has
\* consumed the whole batch.
C14_Witness ==
  /\ sqs_pc = "for"
  /\ Len(messages) = 3
  /\ handled = 3
  /\ outcome = <<Skipping, FailedToForward, Ingested(Response(200))>>
  /\ posted = <<2, 3>>
  /\ deleted = {3}

====
